---- MODULE Spec2Model ----
(***************************************************************************)
(* The thread pool of main.cpp (ThreadPool: worker loop, submit,           *)
(* destructor), the four summation strategies and the benchmark driver     *)
(* of main(), as a state machine.                                          *)
(*                                                                         *)
(* Spec     : the benchmark driver of main() running warm-up and timed     *)
(*            trials of one (method, thread count, array) configuration.   *)
(* Spec4    : the same driver with four threads on a few arrays.           *)
(* Spec8    : the same driver with four threads on the array 1..8.         *)
(* ArgSpec  : main() from its entry, with any command line.                *)
(* PoolSpec : the ThreadPool class under a general caller that submits     *)
(*            arbitrary callables, waits on futures and destroys the pool. *)
(* LiveSpec, PoolLiveSpec : the driver and the pool under fair scheduling. *)
(***************************************************************************)
EXTENDS Integers, Sequences, FiniteSets, TLC

\* ------------------------------------------------------------ bounds
\* Largest --size (array length) explored.
MaxLen == 4
\* Largest --runs explored.
MaxRuns == 1
\* Largest number of work items the general caller of PoolSpec creates.
MaxItems == 3
\* The --threads values explored by Spec; Spec4 runs four threads.
ThreadCounts == {1, 2, 3}
\* The --warmup values explored.
Warmups == {0, 1}
\* The pool sizes explored by PoolSpec.
PoolThreads == {1, 2}
\* The --size and --threads values explored by ArgSpec.
ArgSizes == {-1, 0, 1, 2}
ArgThreads == {0, 1, 2}

\* ------------------------------------------------------------ names
\* The thread of main(); workers are 1..n_threads.
Main == 0
\* Value of mutex when no thread owns queue_mutex.
Free == -1
\* rand() % 100 in fillArray.
RandMod == 100

Methods == {"locked", "unlocked", "reduce", "parallel"}

\* The flags main() requires (line 172).
RequiredFlags == {"--size", "--threads"}

VARIABLES
    flags,        \* the flags present on the command line
    method,       \* --method
    n_threads,    \* current element of thread_counts
    array_size,   \* --size
    arr,          \* the array, indexed 0..array_size-1
    warmup,       \* --warmup
    runs,         \* --runs
    i,            \* warm-up loop index
    run,          \* timed-run loop index
    pc,           \* position of main (pc[Main]) and of each worker
    mutex,        \* owner of queue_mutex, or Free
    tasks,        \* ThreadPool::tasks: queue of work item ids
    stop,         \* ThreadPool::stop
    cur,          \* per worker: the item held in the local `task`
    tmp,          \* per worker: value of total loaded by the racy +=
    items,        \* packaged tasks with their shared state (future)
    total,        \* total_atomic / total_unlocked
    partial_sums, \* the reduce strategy's slots
    sum_result,   \* result of the current timed run
    csv,          \* number of rows written to results.csv for this configuration
    enq,          \* history: ids in the order they were enqueued
    claimed,      \* history: ids in the order workers claimed them
    poolsBuilt,   \* history: ThreadPool objects constructed so far
    lastGet       \* outcome of the caller's latest future::get()

vars == <<flags, method, n_threads, array_size, arr, warmup, runs, i, run, pc, mutex,
          tasks, stop, cur, tmp, items, total, partial_sums, sum_result, csv,
          enq, claimed, poolsBuilt, lastGet>>

cfgVars == <<flags, method, n_threads, array_size, arr, warmup, runs>>

Workers == 1 .. n_threads

\* ------------------------------------------------------------ pure functions

\* fillArray: "sorted", "reverse", and "rand" (rand() % 100 yields values
\* in 0..RandMod-1, of which the model takes the all-smallest and the
\* all-largest array).
Arrays(L) ==
    { [k \in 0 .. L - 1 |-> k] }
    \cup { [k \in 0 .. L - 1 |-> L - k] }
    \cup { [k \in 0 .. L - 1 |-> v] : v \in {0, RandMod - 1} }

\* The sequential sum of the array over a set of indices.
RECURSIVE SumOver(_)
SumOver(S) ==
    IF S = {} THEN 0
    ELSE LET x == CHOOSE y \in S : TRUE IN arr[x] + SumOver(S \ {x})

SeqSum == SumOver(DOMAIN arr)

\* The inner loop of locked_sum / unlocked_sum / reduce_sum:
\* for (i = start; i < end; ++i) sum += arr[i].
\* The same loop written with `i <= end`.
RECURSIVE RangeSumInclusive(_, _)
RangeSumInclusive(start, end) ==
    IF start > end \/ start >= array_size THEN 0
    ELSE arr[start] + RangeSumInclusive(start + 1, end)

RECURSIVE RangeSum(_, _)
RangeSum(start, end) ==
    IF start >= end THEN 0 ELSE arr[start] + RangeSum(start + 1, end)

\* std::accumulate(arr.begin(), arr.end(), 0) / std::reduce(par, ...).
parallel_sum == RangeSum(0, array_size)

\* int block = (array_size + n_threads - 1) / n_threads;
block_ceil == (array_size + n_threads - 1) \div n_threads

\* int block = array_size / n_threads;
block == array_size \div n_threads

\* int start_index = t * block;
start_index(tt) == tt * block

\* int end_index = (t + 1) * block;
end_index_no_remainder(tt) == (tt + 1) * block

\* int end_index = (t == n_threads - 1) ? array_size : (t + 1) * block;
end_index(tt) == IF tt = n_threads - 1 THEN array_size ELSE (tt + 1) * block

\* std::accumulate(partial_sums.begin(), partial_sums.end() - 1, 0).
RECURSIVE AccumulateButLast(_)
AccumulateButLast(s) ==
    IF Len(s) <= 1 THEN 0 ELSE Head(s) + AccumulateButLast(Tail(s))

\* std::accumulate(partial_sums.begin(), partial_sums.end(), 0).
RECURSIVE Accumulate(_)
Accumulate(s) == IF s = <<>> THEN 0 ELSE Head(s) + Accumulate(Tail(s))

\* ------------------------------------------------------------ futures

\* A get() that does not wait for the shared state.
ReadyNoWait(k) == items[k].fut # "none"

\* The shared state of item k holds a value or an exception.
Ready(k) == items[k].fut \in {"value", "error"}

\* The loop counter t of the submit loop: tasks created so far.
t == Len(items)

\* The future the driver's `for (auto &f : futures) f.get()` is at.
NextGet ==
    IF \E k \in 1 .. Len(items) : items[k].got = 0
    THEN CHOOSE k \in 1 .. Len(items) :
            items[k].got = 0 /\ \A j \in 1 .. k - 1 : items[j].got > 0
    ELSE 0

InDtor == pc[Main] \in {"d_lock", "d_stop", "d_notify", "d_join", "destroyed"}

NewItem(kind, lo, hi) ==
    [kind |-> kind, lo |-> lo, hi |-> hi, fut |-> "pending", got |-> 0,
     ran |-> 0, early |-> ~InDtor /\ ~stop]

\* ------------------------------------------------------------ the queue

\* tasks.back()
Back(q) == q[Len(q)]

\* tasks.front()
Front(q) == Head(q)

\* The queue after a claim that leaves the head in place.
NoPop(q) == q

\* tasks.pop()  (line 40)
Pop(q) == Tail(q)

\* The predicate of a wait that does not look at stop.
WaitPredTasksOnly == tasks # <<>>

\* The predicate of condition.wait (line 37).
WaitPred == stop \/ tasks # <<>>

\* if (this->stop) return;
ExitOnStop == stop

\* A loop without the exit check of line 38.
ExitNever == FALSE

\* if (this->stop && this->tasks.empty()) return;  (line 38)
ExitCond == stop /\ tasks = <<>>

Sleeping == {w \in Workers : pc[w] = "sleeping"}

\* A submit that does not notify.
NotifyNone == {pc}

\* condition.notify_one(): wakes one waiting worker, if any.
NotifyOneResults ==
    IF Sleeping = {} THEN {pc}
    ELSE {[pc EXCEPT ![w] = "woken"] : w \in Sleeping}

\* condition.notify_all().
NotifyAllResult == [w \in DOMAIN pc |-> IF pc[w] = "sleeping" THEN "woken" ELSE pc[w]]

\* ------------------------------------------------------------ workers

\* std::unique_lock lock(queue_mutex) at the top of the loop, or the
\* re-acquisition of the mutex when condition.wait wakes up.
WorkerLock(w) ==
    /\ pc[w] \in {"lock", "woken"}
    /\ mutex = Free
    /\ mutex' = w
    /\ pc' = [pc EXCEPT ![w] = "locked"]
    /\ UNCHANGED <<cfgVars, i, run, tasks, stop, cur, tmp, items, total,
                   partial_sums, sum_result, csv, enq, claimed, poolsBuilt, lastGet>>

\* Lines 37-41 under the mutex: wait (releasing the mutex) while the
\* predicate is false; return when stopping and empty; else claim the head.
WorkerCheck(w) ==
    /\ pc[w] = "locked"
    /\ mutex = w
    /\ mutex' = Free
    /\ IF ~WaitPred
       THEN /\ pc' = [pc EXCEPT ![w] = "sleeping"]
            /\ UNCHANGED <<tasks, cur, claimed>>
       ELSE IF ExitCond
       THEN /\ pc' = [pc EXCEPT ![w] = "exited"]
            /\ UNCHANGED <<tasks, cur, claimed>>
       ELSE /\ pc' = [pc EXCEPT ![w] = "run"]
            /\ cur' = [cur EXCEPT ![w] = Front(tasks)]
            /\ claimed' = Append(claimed, Front(tasks))
            /\ tasks' = Pop(tasks)
    /\ UNCHANGED <<cfgVars, i, run, stop, tmp, items, total, partial_sums,
                   sum_result, csv, enq, poolsBuilt, lastGet>>

\* A spurious wake-up of condition.wait.
SpuriousWake(w) ==
    /\ pc[w] = "sleeping"
    /\ pc' = [pc EXCEPT ![w] = "woken"]
    /\ UNCHANGED <<cfgVars, i, run, mutex, tasks, stop, cur, tmp, items, total,
                   partial_sums, sum_result, csv, enq, claimed, poolsBuilt, lastGet>>

\* The packaged_task stores the callable's outcome in the shared state.
Resolve(k, outcome) ==
    [items EXCEPT ![k].fut = outcome, ![k].ran = @ + 1]

\* std::ref(partial_sums[0]) for every task.
SlotShared(k) == 1

\* The slot handed to work item k, the task of loop index t = k - 1:
\* std::ref(partial_sums[t]) (lines 253, 304); slots are numbered from 1.
Slot(k) == k

\* total = sum.
LockedAssign(sum) == sum

\* total += sum on std::atomic<int>: one indivisible fetch-and-add.
LockedAdd(sum) == total + sum

\* task() for a callable that completes in one step (line 44).
WorkerRun(w) ==
    /\ pc[w] = "run"
    /\ LET k == cur[w]
           sum == RangeSum(items[k].lo, items[k].hi)
       IN  /\ items[k].kind \in {"locked", "reduce", "ok", "child"}
           /\ total' = IF items[k].kind = "locked" THEN LockedAdd(sum) ELSE total
           /\ partial_sums' = IF items[k].kind = "reduce"
                              THEN [partial_sums EXCEPT ![Slot(k)] = sum]
                              ELSE partial_sums
           /\ items' = Resolve(k, "value")
    /\ pc' = [pc EXCEPT ![w] = "lock"]
    /\ cur' = [cur EXCEPT ![w] = 0]
    /\ UNCHANGED <<cfgVars, i, run, mutex, tasks, stop, tmp, sum_result,
                   csv, enq, claimed, poolsBuilt, lastGet>>

\* unlocked_sum, first half of the plain `total += sum`: load total.
WorkerLoad(w) ==
    /\ pc[w] = "run"
    /\ items[cur[w]].kind = "unlocked"
    /\ tmp' = [tmp EXCEPT ![w] = total]
    /\ pc' = [pc EXCEPT ![w] = "store"]
    /\ UNCHANGED <<cfgVars, i, run, mutex, tasks, stop, cur, items, total,
                   partial_sums, sum_result, csv, enq, claimed, poolsBuilt, lastGet>>

\* unlocked_sum, second half: store the loaded value plus sum.
WorkerStore(w) ==
    /\ pc[w] = "store"
    /\ LET k == cur[w]
       IN  /\ total' = tmp[w] + RangeSum(items[k].lo, items[k].hi)
           /\ items' = Resolve(k, "value")
    /\ pc' = [pc EXCEPT ![w] = "lock"]
    /\ cur' = [cur EXCEPT ![w] = 0]
    /\ tmp' = [tmp EXCEPT ![w] = 0]
    /\ UNCHANGED <<cfgVars, i, run, mutex, tasks, stop, partial_sums,
                   sum_result, csv, enq, claimed, poolsBuilt, lastGet>>

\* task() for a callable that throws, as if the queued closure let the
\* exception leave the thread function: std::terminate.
WorkerThrowEscapes(w) ==
    /\ pc[w] = "run"
    /\ items[cur[w]].kind = "throw"
    /\ pc' = [th \in DOMAIN pc |-> "terminated"]
    /\ UNCHANGED <<cfgVars, i, run, mutex, tasks, stop, cur, tmp, items, total,
                   partial_sums, sum_result, csv, enq, claimed, poolsBuilt, lastGet>>

\* task() for a callable that throws: the queued closure runs (*task)() of a
\* std::packaged_task (lines 56-63), which stores the exception in the
\* shared state; the call returns normally to the worker loop.
WorkerThrow(w) ==
    /\ pc[w] = "run"
    /\ items[cur[w]].kind = "throw"
    /\ items' = Resolve(cur[w], "error")
    /\ pc' = [pc EXCEPT ![w] = "lock"]
    /\ cur' = [cur EXCEPT ![w] = 0]
    /\ UNCHANGED <<cfgVars, i, run, mutex, tasks, stop, tmp, total, partial_sums,
                   sum_result, csv, enq, claimed, poolsBuilt, lastGet>>

\* ------------------------------------------------------------ submit

\* Where a thread continues when submit returns.
AfterSubmit(th) ==
    IF th # Main THEN "fin"
    ELSE IF method = "none" THEN "idle"
    ELSE IF t < n_threads THEN "submit" ELSE "get"

\* A submit that also waits until the queue has been emptied.
SubmitLockWhenEmpty(th, kind, lo, hi) ==
    /\ mutex = Free
    /\ tasks = <<>>
    /\ mutex' = th
    /\ items' = Append(items, NewItem(kind, lo, hi))
    /\ pc' = [pc EXCEPT ![th] = "s_push"]
    /\ UNCHANGED <<cfgVars, i, run, tasks, stop, cur, tmp, total, partial_sums,
                   sum_result, csv, enq, claimed, poolsBuilt, lastGet>>

\* Lines 56-62: make the packaged_task and its future, lock queue_mutex.
SubmitLock(th, kind, lo, hi) ==
    /\ mutex = Free
    /\ mutex' = th
    /\ items' = Append(items, NewItem(kind, lo, hi))
    /\ pc' = [pc EXCEPT ![th] = "s_push"]
    /\ UNCHANGED <<cfgVars, i, run, tasks, stop, cur, tmp, total, partial_sums,
                   sum_result, csv, enq, claimed, poolsBuilt, lastGet>>

\* Lines 63-64: tasks.emplace(...), then the lock goes out of scope.
SubmitPush(th) ==
    /\ pc[th] = "s_push"
    /\ mutex = th
    /\ tasks' = Append(tasks, Len(items))
    /\ enq' = Append(enq, Len(items))
    /\ mutex' = Free
    /\ pc' = [pc EXCEPT ![th] = "s_notify"]
    /\ UNCHANGED <<cfgVars, i, run, stop, cur, tmp, items, total, partial_sums,
                   sum_result, csv, claimed, poolsBuilt, lastGet>>

\* Lines 65-66: condition.notify_one(); return res.
SubmitNotify(th) ==
    /\ pc[th] = "s_notify"
    /\ \E p \in NotifyOneResults : pc' = [p EXCEPT ![th] = AfterSubmit(th)]
    /\ UNCHANGED <<cfgVars, i, run, mutex, tasks, stop, cur, tmp, items, total,
                   partial_sums, sum_result, csv, enq, claimed, poolsBuilt, lastGet>>

\* task() for a callable that itself calls pool.submit(...): the worker
\* enters submit (lines 56-62).
WorkerSpawn(w) ==
    /\ pc[w] = "run"
    /\ items[cur[w]].kind = "spawn"
    /\ SubmitLock(w, "child", 0, 0)

\* The callable that called submit returns: its packaged_task stores the
\* result and the worker goes back to the top of its loop.
WorkerFinish(w) ==
    /\ pc[w] = "fin"
    /\ items' = Resolve(cur[w], "value")
    /\ pc' = [pc EXCEPT ![w] = "lock"]
    /\ cur' = [cur EXCEPT ![w] = 0]
    /\ UNCHANGED <<cfgVars, i, run, mutex, tasks, stop, tmp, total, partial_sums,
                   sum_result, csv, enq, claimed, poolsBuilt, lastGet>>

\* ------------------------------------------------------------ destructor

AfterJoin == IF method = "none" THEN "destroyed" ELSE "record"

\* ~ThreadPool that goes on to set stop without locking queue_mutex.
DtorNoLock ==
    /\ pc[Main] = "d_lock"
    /\ pc' = [pc EXCEPT ![Main] = "d_stop"]
    /\ UNCHANGED <<cfgVars, i, run, mutex, tasks, stop, cur, tmp, items, total,
                   partial_sums, sum_result, csv, enq, claimed, poolsBuilt, lastGet>>

\* ~ThreadPool, line 72: lock queue_mutex.
DtorLock ==
    /\ pc[Main] = "d_lock"
    /\ mutex = Free
    /\ mutex' = Main
    /\ pc' = [pc EXCEPT ![Main] = "d_stop"]
    /\ UNCHANGED <<cfgVars, i, run, tasks, stop, cur, tmp, items, total,
                   partial_sums, sum_result, csv, enq, claimed, poolsBuilt, lastGet>>

\* stop = true; tasks = {}; unlock: a shutdown that drops what is queued.
DtorStopDiscard ==
    /\ pc[Main] = "d_stop"
    /\ mutex = Main
    /\ stop' = TRUE
    /\ tasks' = <<>>
    /\ mutex' = Free
    /\ pc' = [pc EXCEPT ![Main] = "d_notify"]
    /\ UNCHANGED <<cfgVars, i, run, cur, tmp, items, total, partial_sums,
                   sum_result, csv, enq, claimed, poolsBuilt, lastGet>>

\* Lines 73-74: stop = true; unlock.
DtorStop ==
    /\ pc[Main] = "d_stop"
    /\ mutex = Main
    /\ stop' = TRUE
    /\ mutex' = Free
    /\ pc' = [pc EXCEPT ![Main] = "d_notify"]
    /\ UNCHANGED <<cfgVars, i, run, tasks, cur, tmp, items, total, partial_sums,
                   sum_result, csv, enq, claimed, poolsBuilt, lastGet>>

\* Line 75: condition.notify_all().
DtorNotifyAll ==
    /\ pc[Main] = "d_notify"
    /\ pc' = [NotifyAllResult EXCEPT ![Main] = "d_join"]
    /\ UNCHANGED <<cfgVars, i, run, mutex, tasks, stop, cur, tmp, items, total,
                   partial_sums, sum_result, csv, enq, claimed, poolsBuilt, lastGet>>

\* Lines 76-77: join every worker; returns once all of them have returned.
DtorJoin ==
    /\ pc[Main] = "d_join"
    /\ \A w \in Workers : pc[w] = "exited"
    /\ pc' = [pc EXCEPT ![Main] = AfterJoin]
    /\ UNCHANGED <<cfgVars, i, run, mutex, tasks, stop, cur, tmp, items, total,
                   partial_sums, sum_result, csv, enq, claimed, poolsBuilt, lastGet>>

\* ------------------------------------------------------------ the driver, main()

\* The state of a freshly constructed ThreadPool(n_threads): every worker
\* thread started at the top of its loop (lines 27-48).
Construct(after) ==
    /\ pc' = [th \in {Main} \cup Workers |-> IF th = Main THEN after ELSE "lock"]
    /\ stop' = FALSE
    /\ tasks' = <<>>
    /\ mutex' = Free
    /\ cur' = [w \in Workers |-> 0]
    /\ tmp' = [w \in Workers |-> 0]
    /\ poolsBuilt' = poolsBuilt + 1

\* Where main is after `int block = array_size / n_threads;` (line 227 and
\* the like). With n_threads = 0 the division is undefined: the build traps
\* (SIGFPE on x86), or, the quotient being used only inside the submit loop
\* that runs zero times, the division is never executed and main goes on
\* to the empty loops.
AfterBlock == IF n_threads = 0 THEN {"crashed", "get"} ELSE {"submit"}

\* One warm-up or timed trial of a pool-based method begins: the locals of
\* the branch are initialised and the pool is constructed (lines 225-228,
\* 264, 271-274 and the like).
BeginTrial ==
    /\ pc[Main] = "begin"
    /\ method \in {"locked", "unlocked", "reduce"}
    /\ i < warmup \/ run < runs
    /\ \E after \in AfterBlock : Construct(after)
    /\ items' = <<>>
    /\ total' = 0
    /\ partial_sums' = [k \in 1 .. n_threads |-> 0]
    /\ sum_result' = 0
    /\ enq' = <<>>
    /\ claimed' = <<>>
    /\ UNCHANGED <<cfgVars, i, run, csv, lastGet>>

\* A trial of the parallel method that builds a ThreadPool(n_threads) and
\* lets it go out of scope around the call of parallel_sum(arr).
ParallelTrialWithPool ==
    /\ pc[Main] = "begin"
    /\ method = "parallel"
    /\ i < warmup \/ run < runs
    /\ IF i < warmup
       THEN i' = i + 1 /\ UNCHANGED <<run, sum_result, csv>>
       ELSE run' = run + 1 /\ sum_result' = parallel_sum /\ csv' = csv + 1
            /\ UNCHANGED i
    /\ poolsBuilt' = poolsBuilt + 1
    /\ UNCHANGED <<cfgVars, pc, mutex, tasks, stop, cur, tmp, items, total,
                   partial_sums, enq, claimed, lastGet>>

\* A trial of the parallel method: parallel_sum(arr), no pool (lines 221-223,
\* 266-269, 309-314).
ParallelTrial ==
    /\ pc[Main] = "begin"
    /\ method = "parallel"
    /\ i < warmup \/ run < runs
    /\ IF i < warmup
       THEN i' = i + 1 /\ UNCHANGED <<run, sum_result, csv>>
       ELSE run' = run + 1 /\ sum_result' = parallel_sum /\ csv' = csv + 1
            /\ UNCHANGED i
    /\ UNCHANGED <<cfgVars, pc, mutex, tasks, stop, cur, tmp, items, total,
                   partial_sums, enq, claimed, poolsBuilt, lastGet>>

\* Both loops are over: csv_file.close(); return 0.
Finish ==
    /\ pc[Main] = "begin"
    /\ i >= warmup
    /\ run >= runs
    /\ pc' = [pc EXCEPT ![Main] = "finished"]
    /\ UNCHANGED <<cfgVars, i, run, mutex, tasks, stop, cur, tmp, items, total,
                   partial_sums, sum_result, csv, enq, claimed, poolsBuilt, lastGet>>

\* One iteration of the submit loop up to the lock inside submit:
\* pool.submit(<method>_sum, arr, start_index, end_index, ...).
DriverSubmit ==
    /\ pc[Main] = "submit"
    /\ SubmitLock(Main, method, start_index(t), end_index(t))

\* future::get() blocks until the shared state is ready.
DriverGet ==
    /\ pc[Main] = "get"
    /\ IF NextGet = 0
       THEN /\ pc' = [pc EXCEPT ![Main] = "read"]
            /\ UNCHANGED <<items, lastGet>>
       ELSE /\ Ready(NextGet)
            /\ items' = [items EXCEPT ![NextGet].got = @ + 1]
            /\ lastGet' = items[NextGet].fut
            /\ UNCHANGED pc
    /\ UNCHANGED <<cfgVars, i, run, mutex, tasks, stop, cur, tmp, total,
                   partial_sums, sum_result, csv, enq, claimed, poolsBuilt>>

\* After the barrier: sum_result = total_atomic.load() / total_unlocked /
\* std::accumulate(partial_sums); then the block ends and ~ThreadPool runs.
DriverRead ==
    /\ pc[Main] = "read"
    /\ sum_result' = IF i < warmup THEN sum_result
                     ELSE IF method = "reduce" THEN Accumulate(partial_sums)
                     ELSE total
    /\ pc' = [pc EXCEPT ![Main] = "d_lock"]
    /\ UNCHANGED <<cfgVars, i, run, mutex, tasks, stop, cur, tmp, items, total,
                   partial_sums, csv, enq, claimed, poolsBuilt, lastGet>>

\* The trial is over: a warm-up trial counts i, a timed run writes its row.
EndTrial ==
    /\ pc[Main] = "record"
    /\ IF i < warmup
       THEN i' = i + 1 /\ UNCHANGED <<run, csv>>
       ELSE run' = run + 1 /\ csv' = csv + 1 /\ UNCHANGED i
    /\ pc' = [pc EXCEPT ![Main] = "begin"]
    /\ UNCHANGED <<cfgVars, mutex, tasks, stop, cur, tmp, items, total,
                   partial_sums, sum_result, enq, claimed, poolsBuilt, lastGet>>

\* ------------------------------------------------------------ main() before the trials

\* Lines 172-200: the usage check (both required flags present), the parse
\* of the flag values and the check that the thread list is not empty. The
\* values of --size and --threads are integers that std::stoi accepted; no
\* line compares them with zero.
ParseArgs ==
    /\ pc[Main] = "args"
    /\ pc' = [pc EXCEPT ![Main] =
                IF RequiredFlags \subseteq flags THEN "prepare" ELSE "usage"]
    /\ UNCHANGED <<cfgVars, i, run, mutex, tasks, stop, cur, tmp, items, total,
                   partial_sums, sum_result, csv, enq, claimed, poolsBuilt, lastGet>>

\* Lines 203-204: std::vector<int> arr(array_size); fillArray(arr, dist).
\* A negative array_size converts to a size_t above max_size(): the
\* constructor throws std::length_error, nothing catches it, std::terminate.
PrepareArray ==
    /\ pc[Main] = "prepare"
    /\ IF array_size < 0
       THEN /\ pc' = [th \in DOMAIN pc |-> "terminated"]
            /\ UNCHANGED arr
       ELSE /\ arr' \in Arrays(array_size)
            /\ pc' = [pc EXCEPT ![Main] = "begin"]
    /\ UNCHANGED <<flags, method, n_threads, array_size, warmup, runs, i, run,
                   mutex, tasks, stop, cur, tmp, items, total, partial_sums,
                   sum_result, csv, enq, claimed, poolsBuilt, lastGet>>

\* ------------------------------------------------------------ a general caller

\* Work items the caller may still create: a "spawn" item stands for two,
\* itself and the item its callable submits.
Potential ==
    Len(items)
    + Cardinality({k \in 1 .. Len(items) : items[k].kind = "spawn"})
    - Cardinality({k \in 1 .. Len(items) : items[k].kind = "child"})

Cost(kind) == IF kind = "spawn" THEN 2 ELSE 1

\* The caller calls pool.submit(f) for a callable that returns ("ok"),
\* throws ("throw") or submits another item to the same pool ("spawn").
ClientSubmit(kind) ==
    /\ pc[Main] = "idle"
    /\ Potential + Cost(kind) <= MaxItems
    /\ SubmitLock(Main, kind, 0, 0)

\* The process has died: no thread takes another step.
Crashed == [th \in DOMAIN pc |-> "crashed"]

\* What a second get() on the same std::future does: valid() is false, the
\* behaviour is undefined; libstdc++ and MSVC throw future_error(no_state),
\* libc++ dereferences the null state.
SecondGetOutcomes == {"future_error", "crash"}

\* The caller calls get() on a future it holds (line 60 hands out a plain
\* std::future): the first call blocks until the shared state is ready and
\* returns the value or rethrows the stored exception.
ClientGet(k) ==
    /\ pc[Main] = "idle"
    /\ items[k].kind # "child"
    /\ items[k].got < 2
    /\ IF items[k].got = 0
       THEN /\ Ready(k)
            /\ lastGet' = items[k].fut
            /\ UNCHANGED pc
       ELSE \E o \in SecondGetOutcomes :
                /\ lastGet' = o
                /\ pc' = IF o = "crash" THEN Crashed ELSE pc
    /\ items' = [items EXCEPT ![k].got = @ + 1]
    /\ UNCHANGED <<cfgVars, i, run, mutex, tasks, stop, cur, tmp, total,
                   partial_sums, sum_result, csv, enq, claimed, poolsBuilt>>

\* The pool goes out of scope: ~ThreadPool begins.
ClientDestroy ==
    /\ pc[Main] = "idle"
    /\ pc' = [pc EXCEPT ![Main] = "d_lock"]
    /\ UNCHANGED <<cfgVars, i, run, mutex, tasks, stop, cur, tmp, items, total,
                   partial_sums, sum_result, csv, enq, claimed, poolsBuilt, lastGet>>

\* ------------------------------------------------------------ specifications

InitRest ==
    /\ i = 0
    /\ run = 0
    /\ pc = [th \in {Main} \cup Workers |-> IF th = Main THEN "begin" ELSE "unborn"]
    /\ mutex = Free
    /\ tasks = <<>>
    /\ stop = FALSE
    /\ cur = [w \in Workers |-> 0]
    /\ tmp = [w \in Workers |-> 0]
    /\ items = <<>>
    /\ total = 0
    /\ partial_sums = <<>>
    /\ sum_result = 0
    /\ csv = 0
    /\ enq = <<>>
    /\ claimed = <<>>
    /\ poolsBuilt = 0
    /\ lastGet = "none"

\* main() after argument parsing and fillArray, before the first trial.
Init ==
    /\ flags = RequiredFlags
    /\ method \in Methods
    /\ n_threads \in ThreadCounts
    /\ array_size \in 1 .. MaxLen
    /\ arr \in Arrays(array_size)
    /\ warmup \in Warmups
    /\ runs \in 1 .. MaxRuns
    /\ InitRest

\* The arrays of the four-thread runs: --dist sorted and reverse with
\* --size 4, and a rand-filled array of --size 1.
Arrays4 ==
    { [k \in 0 .. 3 |-> k], [k \in 0 .. 3 |-> 4 - k], [k \in 0 .. 0 |-> RandMod - 1] }

\* main() started with --threads 4 --warmup 0 --runs 1.
Init4 ==
    /\ flags = RequiredFlags
    /\ method \in Methods
    /\ n_threads = 4
    /\ arr \in Arrays4
    /\ array_size = Cardinality(DOMAIN arr)
    /\ warmup = 0
    /\ runs = 1
    /\ InitRest

\* main() entered with some command line: each required flag present or
\* not, --size and --threads holding an integer, zero or negative included.
ArgInit ==
    /\ flags \in SUBSET RequiredFlags
    /\ method \in Methods
    /\ n_threads \in ArgThreads
    /\ array_size \in ArgSizes
    /\ arr = <<>>
    /\ warmup \in Warmups
    /\ runs \in 1 .. MaxRuns
    /\ i = 0
    /\ run = 0
    /\ pc = [th \in {Main} \cup Workers |-> IF th = Main THEN "args" ELSE "unborn"]
    /\ mutex = Free
    /\ tasks = <<>>
    /\ stop = FALSE
    /\ cur = [w \in Workers |-> 0]
    /\ tmp = [w \in Workers |-> 0]
    /\ items = <<>>
    /\ total = 0
    /\ partial_sums = <<>>
    /\ sum_result = 0
    /\ csv = 0
    /\ enq = <<>>
    /\ claimed = <<>>
    /\ poolsBuilt = 0
    /\ lastGet = "none"

\* A rand-filled array of --size 8 (values of rand() % 100): 1, 2, ..., 8.
OneToEight == [k \in 0 .. 7 |-> k + 1]

\* main() started with --threads 4 --size 8 --warmup 0 --runs 1 on that array.
Init8 ==
    /\ flags = RequiredFlags
    /\ method \in Methods
    /\ n_threads = 4
    /\ arr = OneToEight
    /\ array_size = 8
    /\ warmup = 0
    /\ runs = 1
    /\ InitRest

\* A ThreadPool(n_threads) right after construction, owned by a caller
\* that is not the benchmark driver.
PoolInit ==
    /\ flags = RequiredFlags
    /\ method = "none"
    /\ n_threads \in PoolThreads
    /\ array_size = 0
    /\ arr = <<>>
    /\ warmup = 0
    /\ runs = 0
    /\ i = 0
    /\ run = 0
    /\ pc = [th \in {Main} \cup Workers |-> IF th = Main THEN "idle" ELSE "lock"]
    /\ mutex = Free
    /\ tasks = <<>>
    /\ stop = FALSE
    /\ cur = [w \in Workers |-> 0]
    /\ tmp = [w \in Workers |-> 0]
    /\ items = <<>>
    /\ total = 0
    /\ partial_sums = <<>>
    /\ sum_result = 0
    /\ csv = 0
    /\ enq = <<>>
    /\ claimed = <<>>
    /\ poolsBuilt = 1
    /\ lastGet = "none"

Next ==
    \/ BeginTrial
    \/ ParallelTrial
    \/ Finish
    \/ DriverSubmit
    \/ SubmitPush(Main)
    \/ SubmitNotify(Main)
    \/ DriverGet
    \/ DriverRead
    \/ DtorLock
    \/ DtorStop
    \/ DtorNotifyAll
    \/ DtorJoin
    \/ EndTrial
    \/ \E w \in Workers : WorkerLock(w)
    \/ \E w \in Workers : WorkerCheck(w)
    \/ \E w \in Workers : SpuriousWake(w)
    \/ \E w \in Workers : WorkerRun(w)
    \/ \E w \in Workers : WorkerLoad(w)
    \/ \E w \in Workers : WorkerStore(w)

PoolNext ==
    \/ \E kind \in {"ok", "throw", "spawn"} : ClientSubmit(kind)
    \/ \E k \in 1 .. Len(items) : ClientGet(k)
    \/ ClientDestroy
    \/ \E th \in {Main} \cup Workers : SubmitPush(th)
    \/ \E th \in {Main} \cup Workers : SubmitNotify(th)
    \/ DtorLock
    \/ DtorStop
    \/ DtorNotifyAll
    \/ DtorJoin
    \/ \E w \in Workers : WorkerLock(w)
    \/ \E w \in Workers : WorkerCheck(w)
    \/ \E w \in Workers : SpuriousWake(w)
    \/ \E w \in Workers : WorkerRun(w)
    \/ \E w \in Workers : WorkerThrow(w)
    \/ \E w \in Workers : WorkerSpawn(w)
    \/ \E w \in Workers : WorkerFinish(w)

ArgNext ==
    \/ ParseArgs
    \/ PrepareArray
    \/ Next

Spec == Init /\ [][Next]_vars

ArgSpec == ArgInit /\ [][ArgNext]_vars

Spec8 == Init8 /\ [][Next]_vars

\* Every thread id a pool of PoolSpec can have.
PoolWorkerIds == UNION {1 .. n : n \in PoolThreads}

\* A step of thread th that takes queue_mutex: the workers' lock at the top
\* of the loop or after a wake-up (lines 36-37), the lock inside a submit
\* called by a running task (line 62), the destructor's lock (line 72).
TakeMutex(th) ==
    IF th = Main THEN DriverSubmit \/ DtorLock
    ELSE th \in Workers /\ (WorkerLock(th) \/ WorkerSpawn(th))

\* A step of a thread that does not have to acquire the mutex: main()
\* running its trials, a thread inside the worker loop, inside submit or
\* inside the destructor.
Proceed(th) ==
    IF th = Main
    THEN \/ BeginTrial \/ ParallelTrial \/ Finish \/ DriverGet \/ DriverRead
         \/ EndTrial
         \/ SubmitPush(Main) \/ SubmitNotify(Main)
         \/ DtorStop \/ DtorNotifyAll \/ DtorJoin
    ELSE /\ th \in Workers
         /\ \/ WorkerCheck(th) \/ WorkerRun(th) \/ WorkerLoad(th)
            \/ WorkerStore(th) \/ WorkerThrow(th) \/ WorkerFinish(th)
            \/ SubmitPush(th) \/ SubmitNotify(th)

\* The scheduler runs every thread that can run, and queue_mutex is handed
\* to every thread that keeps asking for it. Nothing obliges the caller to
\* call submit, get or the destructor, and nothing obliges a spurious
\* wake-up to happen.
Fairness(ids) ==
    \A th \in {Main} \cup ids :
        WF_vars(Proceed(th)) /\ SF_vars(TakeMutex(th))

PoolLiveSpec == PoolInit /\ [][PoolNext]_vars /\ Fairness(PoolWorkerIds)

\* The --threads values of the runs checked for termination.
LiveThreads == {1, 2, 3}

LiveWorkerIds == UNION {1 .. n : n \in LiveThreads}

\* main() started with --size 2 --dist sorted --warmup 1 --runs 1: two
\* trials, each with its own pool.
LiveInit ==
    /\ flags = RequiredFlags
    /\ method \in Methods
    /\ n_threads \in LiveThreads
    /\ arr = [k \in 0 .. 1 |-> k]
    /\ array_size = Cardinality(DOMAIN arr)
    /\ warmup = 1
    /\ runs = 1
    /\ InitRest

LiveSpec == LiveInit /\ [][Next]_vars /\ Fairness(LiveWorkerIds)

Spec4 == Init4 /\ [][Next]_vars

PoolSpec == PoolInit /\ [][PoolNext]_vars

\* ------------------------------------------------------------ properties

\* The indices of array elements in the range of work item k.
Range(k) == {x \in 0 .. array_size - 1 : items[k].lo <= x /\ x < items[k].hi}

\* The sequential sum of the array over the range of work item k.
PartialSum(k) == SumOver(Range(k))

\* main is past the barrier and the read of the result of a timed run.
ResultTaken ==
    /\ i >= warmup
    /\ pc[Main] \in {"d_lock", "d_stop", "d_notify", "d_join", "record"}

PoolMethods == {"locked", "unlocked", "reduce"}

\* C1: for the locked and the reduce strategies and 1 <= N <= L, the sum
\* read after all N futures have been waited on equals the sequential sum
\* of the array, under every interleaving of the workers.
C1_SumEqualsSequential ==
    (method \in {"locked", "reduce"} /\ n_threads <= array_size /\ ResultTaken)
        => sum_result = SeqSum

C1_Witness ==
    /\ method = "locked"
    /\ n_threads = 3
    /\ array_size = 4
    /\ pc[Main] = "record"
    /\ i >= warmup
    /\ sum_result = SeqSum
    /\ SeqSum > 0

\* C2: after ~ThreadPool returns every worker has left its loop and every
\* work item submitted before the destructor started has been executed and
\* its future resolved.
C2_ShutdownDrains ==
    pc[Main] = "destroyed" =>
        /\ \A w \in Workers : pc[w] = "exited"
        /\ \A k \in 1 .. Len(items) :
              items[k].early => (Ready(k) /\ items[k].ran = 1)

C2_Witness ==
    /\ pc[Main] = "destroyed"
    /\ n_threads = 2
    /\ Len(items) = 3
    /\ \A k \in 1 .. Len(items) : items[k].got = 0 /\ Ready(k)
    /\ \E k \in 1 .. Len(items) : items[k].kind = "child" /\ ~items[k].early

\* C3: for 1 <= N <= L the ranges the driver hands to its N tasks start at
\* 0, are contiguous, do not overlap, cover exactly [0, L), and the last
\* range ends at L.
C3_PartitionCovers ==
    (method \in PoolMethods /\ n_threads <= array_size /\ Len(items) = n_threads)
    =>  /\ items[1].lo = 0
        /\ items[n_threads].hi = array_size
        /\ \A k \in 1 .. n_threads : items[k].lo <= items[k].hi
        /\ \A k \in 1 .. n_threads - 1 : items[k].hi = items[k + 1].lo
        /\ \A x \in 0 .. array_size - 1 :
              Cardinality({k \in 1 .. n_threads : x \in Range(k)}) = 1
        /\ \A k \in 1 .. n_threads : \A x \in items[k].lo .. items[k].hi - 1 :
              x \in 0 .. array_size - 1

C3_Witness ==
    /\ method \in PoolMethods
    /\ n_threads = 3
    /\ array_size = 4
    /\ Len(items) = n_threads
    /\ items[1].hi - items[1].lo = 1
    /\ items[3].hi - items[3].lo = 2

\* C4: when the callable of a work item throws, the exception is stored in
\* that item's future; the worker that ran it stays alive and returns to
\* the top of its loop, no other future changes, and the caller sees the
\* exception only as the outcome of get() on that future. (A step in which
\* the whole process dies in the caller's get() is not a step of the item.)
C4_FailureCaptured ==
    /\ [][\A w \in Workers :
            (/\ pc[w] = "run"
             /\ items[cur[w]].kind = "throw"
             /\ pc'[w] # "run"
             /\ lastGet' # "crash")
            =>  /\ pc'[w] = "lock"
                /\ items'[cur[w]].fut = "error"
                /\ lastGet' = lastGet
                /\ \A j \in 1 .. Len(items) :
                      j # cur[w] => items'[j] = items[j]]_vars
    /\ [][\A k \in 1 .. Len(items) :
            (items[k].got = 0 /\ items'[k].got = 1)
            => (lastGet' = "error" <=> items[k].kind = "throw")]_vars

C4_Witness ==
    /\ n_threads = 1
    /\ lastGet = "error"
    /\ \E k \in 1 .. Len(items) :
          /\ items[k].kind = "throw"
          /\ items[k].fut = "error"
          /\ items[k].got = 1
    /\ pc[1] = "run"
    /\ items[cur[1]].kind = "ok"

\* C5: get() returns only for an item that has finished executing, so when
\* the driver reads the accumulator or merges the slots every task's
\* effect has already happened.
C5_Barrier ==
    /\ \A k \in 1 .. Len(items) :
          items[k].got > 0 =>
              /\ items[k].ran = 1
              /\ \A w \in Workers : cur[w] # k
              /\ method = "reduce" => partial_sums[k] = PartialSum(k)
    /\ (method \in PoolMethods /\ pc[Main] = "read") =>
          /\ Len(items) = n_threads
          /\ \A k \in 1 .. n_threads : items[k].got = 1 /\ items[k].ran = 1
          /\ method = "locked" =>
                total = Accumulate([k \in 1 .. n_threads |-> PartialSum(k)])

C5_Witness ==
    /\ method = "reduce"
    /\ n_threads = 3
    /\ array_size = 4
    /\ pc[Main] = "read"
    /\ Accumulate(partial_sums) = SeqSum
    /\ SeqSum > 0
    /\ \E w \in Workers : pc[w] = "lock"

\* C6: within one configuration all warm-up and timed trials use one pool
\* instance; the pool is not rebuilt per run.
C6_PoolReused == poolsBuilt <= 1

\* C7: unlocked strategy. The plain `total += sum` of concurrent tasks can
\* lose updates: the total of a run is the sum of the partial sums of some
\* non-empty subset of the tasks (the witness is a run of four tasks whose
\* total differs from the true sum).
C7_UnlockedLosesUpdates ==
    (method = "unlocked" /\ ResultTaken) =>
        \E T \in (SUBSET (1 .. n_threads)) \ {{}} :
            sum_result = SumOver(UNION {Range(k) : k \in T})

C7_Witness ==
    /\ method = "unlocked"
    /\ n_threads >= 4
    /\ pc[Main] = "record"
    /\ \A k \in 1 .. Len(items) : items[k].ran = 1 /\ items[k].got = 1
    /\ sum_result # SeqSum

\* C8: once stop has been set no submit adds an item to the task queue.
C8_NoEnqueueAfterStop == [][stop => Len(tasks') <= Len(tasks)]_vars

\* C9: a second get() on the same future is a defined failure the caller
\* observes (an error is raised); it neither returns nor takes the process
\* down.
C9_SecondGetDefined ==
    [][\A k \in 1 .. Len(items) :
          (items[k].got = 1 /\ items'[k].got = 2) => lastGet' = "future_error"]_vars

\* C10: work items are claimed in exactly the order in which they were
\* enqueued, whatever the number of workers.
C10_FifoEgress ==
    /\ Len(claimed) <= Len(enq)
    /\ \A j \in 1 .. Len(claimed) : claimed[j] = enq[j]

C10_Witness ==
    /\ n_threads = 2
    /\ Len(claimed) >= 2
    /\ Ready(claimed[2])
    /\ ~Ready(claimed[1])

\* A command line main() is specified to reject.
ConfigError ==
    \/ ~(RequiredFlags \subseteq flags)
    \/ array_size <= 0
    \/ n_threads <= 0

\* C11: on a configuration error (a required flag missing, a non-positive
\* array size or thread count) no pool is constructed, no task is
\* submitted, and main does not run to its `return 0`.
C11_ConfigErrorRejected ==
    ConfigError =>
        /\ poolsBuilt = 0
        /\ items = <<>>
        /\ pc[Main] # "finished"

\* The sum of the first n partial-sum slots.
RECURSIVE SlotsTotal(_)
SlotsTotal(n) == IF n = 0 THEN 0 ELSE partial_sums[n] + SlotsTotal(n - 1)

\* Every task of the trial has been created and has finished executing.
AllTasksDone ==
    /\ Len(items) = n_threads
    /\ \A k \in 1 .. n_threads : items[k].ran = 1

\* C12: reduce strategy. Once all tasks have completed, slot t holds the
\* sum of the array over range t, and the merged total is the sum of the
\* slots; for the array 1..8 and N = 4 the ranges are [0,2) [2,4) [4,6)
\* [6,8), the slots 3, 7, 11, 15 and the total 36.
C12_ReduceSlots ==
    (method = "reduce" /\ AllTasksDone) =>
        /\ \A k \in 1 .. n_threads : partial_sums[k] = PartialSum(k)
        /\ ResultTaken => sum_result = SlotsTotal(n_threads)
        /\ (arr = OneToEight /\ n_threads = 4) =>
              /\ [k \in 1 .. 4 |-> <<items[k].lo, items[k].hi>>]
                    = << <<0, 2>>, <<2, 4>>, <<4, 6>>, <<6, 8>> >>
              /\ partial_sums = <<3, 7, 11, 15>>
              /\ ResultTaken => sum_result = 36

C12_Witness ==
    /\ method = "reduce"
    /\ arr = OneToEight
    /\ n_threads = 4
    /\ pc[Main] = "record"
    /\ partial_sums = <<3, 7, 11, 15>>
    /\ sum_result = 36

\* C13: with more threads than elements (N > L) every range but the last
\* is empty and the last is [0, L): the ranges cover [0, L) without
\* overlap (for L = 1, N = 4: one non-empty range and three empty ones),
\* and the locked and reduce totals equal the sequential sum.
C13_MoreThreadsThanElements ==
    (method \in PoolMethods /\ n_threads > array_size) =>
        /\ \A k \in 1 .. Len(items) :
              /\ items[k].lo = 0
              /\ items[k].hi = IF k < n_threads THEN 0 ELSE array_size
        /\ Len(items) = n_threads =>
              /\ \A x \in 0 .. array_size - 1 :
                    Cardinality({k \in 1 .. n_threads : x \in Range(k)}) = 1
              /\ (array_size = 1 /\ n_threads = 4) =>
                    /\ Cardinality({k \in 1 .. 4 : Range(k) # {}}) = 1
                    /\ Cardinality({k \in 1 .. 4 : Range(k) = {}}) = 3
        /\ (method \in {"locked", "reduce"} /\ ResultTaken) => sum_result = SeqSum

C13_Witness ==
    /\ method = "locked"
    /\ n_threads = 4
    /\ array_size = 1
    /\ pc[Main] = "record"
    /\ sum_result = RandMod - 1
    /\ \A k \in 1 .. 4 : items[k].ran = 1

\* C14: a worker leaves its loop only in a state where stop is set and the
\* queue is empty; a worker that holds the mutex while stop is set and the
\* queue is not empty claims the head; so when every worker has exited the
\* queue is empty and every enqueued item has been claimed and executed.
C14_GracefulDrain ==
    /\ [][\A w \in Workers :
            (pc[w] # "exited" /\ pc'[w] = "exited") => (stop /\ tasks = <<>>)]_vars
    /\ [][\A w \in Workers :
            (/\ pc[w] = "locked"
             /\ pc'[w] # "locked"
             /\ lastGet' # "crash"
             /\ stop
             /\ tasks # <<>>)
            =>  /\ pc'[w] = "run"
                /\ cur'[w] = Head(tasks)
                /\ tasks' = Tail(tasks)]_vars
    /\ []((\A w \in Workers : pc[w] = "exited") =>
            /\ tasks = <<>>
            /\ claimed = enq
            /\ \A j \in 1 .. Len(enq) : items[enq[j]].ran = 1)

C14_Witness ==
    /\ n_threads = 2
    /\ stop
    /\ Len(tasks) >= 2
    /\ pc[1] = "locked"
    /\ pc[2] = "run"

\* The places work item k is in: the queue positions and the workers
\* holding it.
QueueSlots(k) == {j \in 1 .. Len(tasks) : tasks[j] = k}
Holders(k) == {w \in Workers : cur[w] = k}

\* C15: every enqueued item is claimed by at most one worker and executed
\* at most once: at any time it is either once in the queue, or held by
\* exactly one worker, or executed exactly once with its future ready; and
\* a future that is ready never changes.
C15_ExactlyOnce ==
    /\ [](\A j \in 1 .. Len(enq) :
            LET k == enq[j]
            IN  /\ items[k].ran <= 1
                /\ Cardinality(QueueSlots(k)) + Cardinality(Holders(k))
                       + items[k].ran = 1
                /\ Cardinality({n \in 1 .. Len(claimed) : claimed[n] = k})
                       = Cardinality(Holders(k)) + items[k].ran
                /\ Ready(k) <=> items[k].ran = 1)
    /\ [][\A k \in 1 .. Len(items) :
            /\ items'[k].ran >= items[k].ran
            /\ Ready(k) => items'[k].fut = items[k].fut]_vars

C15_Witness ==
    /\ n_threads = 2
    /\ Len(enq) = 3
    /\ items[enq[1]].ran = 1
    /\ pc[1] = "run"
    /\ pc[2] = "run"
    /\ cur[1] # cur[2]

\* Work item k has been put on the queue.
Enqueued(k) == \E j \in 1 .. Len(enq) : enq[j] = k

\* The process has been taken down by the caller's second get().
ProcessDead == pc[Main] = "crashed"

\* C16: submit appends the item at the tail of the queue and its
\* notify_one wakes one waiting worker when there is one; while the
\* process lives, every item put on the queue is eventually executed,
\* whatever the workers were doing when it was submitted.
C16_NoLostWakeup ==
    /\ [][Len(tasks') > Len(tasks) =>
            /\ tasks' = Append(tasks, Len(items))
            /\ ~Enqueued(Len(items))]_vars
    /\ [][\A th \in DOMAIN pc :
            (pc[th] = "s_notify" /\ pc'[th] # "s_notify" /\ lastGet' # "crash")
            => Cardinality({w \in Sleeping : pc'[w] = "woken"})
                  = IF Sleeping = {} THEN 0 ELSE 1]_vars
    /\ \A k \in 1 .. MaxItems :
          Enqueued(k) ~> (ProcessDead \/ (k <= Len(items) /\ items[k].ran = 1))

C16_Witness ==
    /\ n_threads = 2
    /\ \A w \in Workers : pc[w] = "sleeping"
    /\ pc[Main] = "s_notify"
    /\ Len(items) = 2
    /\ tasks = <<2>>
    /\ items[1].ran = 1

\* Some thread of the program can take a step.
CanStep == \E th \in {Main} \cup Workers : ENABLED (Proceed(th) \/ TakeMutex(th))

\* main is inside a trial of a pool-based method: between the construction
\* of the pool and the return of its destructor.
InTrial ==
    pc[Main] \in {"submit", "s_push", "s_notify", "get", "read", "d_lock",
                  "d_stop", "d_notify", "d_join"}

\* C17: every trial terminates. Under fair scheduling main(), once inside
\* a trial, reaches its end: it leaves the get() loop, which it does only
\* with every future waited on, and the destructor returns, with every
\* worker joined; no state before the end of main() is a deadlock, and no
\* worker is asleep once the destructor has notified all workers.
C17_TrialsTerminate ==
    /\ InTrial ~> (pc[Main] = "finished")
    /\ [][(pc[Main] = "get" /\ pc'[Main] # "get") =>
            /\ pc'[Main] = "read"
            /\ \A k \in 1 .. n_threads : items[k].got = 1]_vars
    /\ [](pc[Main] = "record" => \A w \in Workers : pc[w] = "exited")
    /\ [](pc[Main] \in {"d_join", "record"} => \A w \in Workers : pc[w] # "sleeping")
    /\ [](pc[Main] # "finished" => CanStep)

C17_Witness ==
    /\ pc[Main] = "finished"
    /\ method = "locked"
    /\ n_threads = 3
    /\ warmup = 1
    /\ poolsBuilt = 2
    /\ csv = 1
    /\ sum_result = SeqSum

\* C18: reduce strategy. A slot changes only in the step in which the task
\* of that slot completes, so each slot is written by its own task alone
\* and holds its initial 0 until then; main merges the slots only when
\* every task has completed and no worker holds an item.
C18_ReduceIsolation ==
    /\ [][(method = "reduce" /\ pc[Main] # "begin") =>
            \A j \in 1 .. n_threads :
                partial_sums'[j] # partial_sums[j] =>
                    /\ j <= Len(items)
                    /\ items[j].ran = 0
                    /\ items'[j].ran = 1
                    /\ \E w \in Workers : pc[w] = "run" /\ cur[w] = j
                    /\ \A n \in 1 .. n_threads :
                          n # j => partial_sums'[n] = partial_sums[n]]_vars
    /\ []((method = "reduce" /\ pc[Main] # "begin") =>
            \A j \in 1 .. n_threads :
                (j > Len(items) \/ items[j].ran = 0) => partial_sums[j] = 0)
    /\ []((method = "reduce" /\ pc[Main] = "read") =>
            /\ AllTasksDone
            /\ \A w \in Workers : cur[w] = 0)
    /\ [][(method = "reduce" /\ pc[Main] = "read" /\ pc'[Main] # "read") =>
            sum_result' = SlotsTotal(n_threads)]_vars

C18_Witness ==
    /\ method = "reduce"
    /\ arr = OneToEight
    /\ pc[1] = "run"
    /\ pc[2] = "run"
    /\ cur[1] # cur[2]
    /\ \E k \in 1 .. n_threads : partial_sums[k] # 0

\* C19: submit waits for nothing but the queue mutex. A caller (main, or a
\* running task) that calls submit while the mutex is free enters it,
\* whatever the queue holds and whatever the workers are doing; inside
\* submit the enqueue and the notify are always possible, so submit returns
\* without the item having been claimed or executed.
C19_SubmitNeverSuspends ==
    /\ (pc[Main] = "idle" /\ mutex = Free /\ Potential < MaxItems)
          => ENABLED ClientSubmit("ok")
    /\ \A w \in Workers :
          (pc[w] = "run" /\ items[cur[w]].kind = "spawn" /\ mutex = Free)
              => ENABLED WorkerSpawn(w)
    /\ \A th \in DOMAIN pc :
          /\ pc[th] = "s_push" => (mutex = th /\ ENABLED SubmitPush(th))
          /\ pc[th] = "s_notify" => ENABLED SubmitNotify(th)

C19_Witness ==
    /\ n_threads = 2
    /\ pc[Main] = "idle"
    /\ Len(items) = 3
    /\ tasks = <<1, 2, 3>>
    /\ \A w \in Workers : pc[w] \in {"lock", "woken"}

\* The positions at which a thread reads or writes tasks or stop: a worker
\* between its lock and the end of lines 37-40, a submitter at the emplace
\* (line 63), the destructor at `stop = true` (line 73).
CriticalPcs == {"locked", "s_push", "d_stop"}

InCritical == {th \in DOMAIN pc : pc[th] \in CriticalPcs}

\* C20: a thread is at an access to the queue or to the stop flag exactly
\* when it holds queue_mutex, so at most one thread is; the queue and the
\* flag change only in a step of the thread holding the mutex; a worker
\* executing an item does not hold the mutex, and the holder of the mutex
\* can always go on to release it. (Stated for the live process.)
C20_QueueUnderMutex ==
    /\ [](~ProcessDead =>
            /\ \A th \in DOMAIN pc : th \in InCritical <=> mutex = th
            /\ Cardinality(InCritical) <= 1
            /\ mutex # Free => mutex \in DOMAIN pc
            /\ \A w \in Workers : pc[w] \in {"run", "fin"} => mutex # w
            /\ \A th \in DOMAIN pc : mutex = th => ENABLED Proceed(th))
    /\ [][(tasks' # tasks \/ stop' # stop) =>
            /\ mutex # Free
            /\ pc[mutex] \in CriticalPcs
            /\ pc'[mutex] # pc[mutex]
            /\ mutex' = Free
            /\ stop' # stop => mutex = Main]_vars

C20_Witness ==
    /\ n_threads = 2
    /\ pc[Main] = "s_push"
    /\ mutex = Main
    /\ Len(tasks) = 1
    /\ pc[1] = "run"
    /\ pc[2] \in {"lock", "woken"}

\* Worker w holds the mutex, its wait has returned and the exit check has
\* not returned: it is at tasks.front() / tasks.pop() (lines 39-40).
AtPop(w) == pc[w] = "locked" /\ WaitPred /\ ~ExitCond

\* C21: a worker never removes an item from an empty queue. Whenever a
\* worker is at tasks.front() / tasks.pop() the queue is not empty, and the
\* step of a worker that holds the mutex is decided by the queue and the
\* flag alone: asleep again on an empty queue without stop (also after a
\* notification whose item another worker took), out of the loop on an
\* empty queue with stop, and a claim of the head only on a non-empty queue.
C21_NoPopFromEmpty ==
    /\ [](\A w \in Workers : AtPop(w) => tasks # <<>>)
    /\ [][\A w \in Workers :
            (pc[w] = "locked" /\ pc'[w] # "locked" /\ lastGet' # "crash") =>
                /\ (tasks = <<>> /\ ~stop) =>
                      (pc'[w] = "sleeping" /\ tasks' = tasks /\ claimed' = claimed)
                /\ (tasks = <<>> /\ stop) =>
                      (pc'[w] = "exited" /\ tasks' = tasks /\ claimed' = claimed)
                /\ tasks # <<>> =>
                      /\ pc'[w] = "run"
                      /\ cur'[w] = tasks[1]
                      /\ Len(tasks') = Len(tasks) - 1]_vars
    /\ [][Len(claimed') > Len(claimed) => tasks # <<>>]_vars

C21_Witness ==
    /\ n_threads = 2
    /\ ~stop
    /\ tasks = <<>>
    /\ Len(enq) = 1
    /\ claimed = enq
    /\ pc[1] = "woken"
    /\ pc[2] = "run"
    /\ pc[Main] = "idle"

\* C22: in a run with method parallel no ThreadPool is constructed, no
\* task is submitted and no worker thread is started, in the warm-up runs
\* and in the timed runs alike; the recorded sum is the sequential sum of
\* the array whatever the thread count, and each timed run writes its row.
C22_ParallelBypassesPool ==
    method = "parallel" =>
        /\ poolsBuilt = 0
        /\ items = <<>>
        /\ enq = <<>>
        /\ tasks = <<>>
        /\ claimed = <<>>
        /\ mutex = Free
        /\ ~stop
        /\ total = 0
        /\ \A w \in Workers : pc[w] = "unborn"
        /\ pc[Main] \in {"begin", "finished"}
        /\ csv = run
        /\ run > 0 => sum_result = SeqSum

C22_Witness ==
    /\ method = "parallel"
    /\ n_threads = 3
    /\ warmup = 1
    /\ i = 1
    /\ run = 1
    /\ pc[Main] = "finished"
    /\ sum_result = SeqSum
    /\ SeqSum > 0

====
